---- MODULE Spec2Model ----
(***************************************************************************)
(* A model of the crawl engine of webcrawler/core.py: the per-URL          *)
(* fetch-classify-retry procedure (get_hyper_links), the categorisation    *)
(* bookkeeping, the breadth-first traversal with its worker threads and    *)
(* the recursive depth-first traversal.  The URL ledger (UrlQueue,         *)
(* url_queue.py) is not part of the sources at hand and is modelled from   *)
(* its contract in the specification (section 4.4).                        *)
(***************************************************************************)
EXTENDS Integers, Sequences, FiniteSets, TLC

(***************************************************************************)
(* Bounds of the model.                                                    *)
(***************************************************************************)
\* URLs are 1..NumUrls; the last one lives on a host that is no seed's host.
NumUrls == 3
\* max_depth is drawn from 0..MaxDepthBound.
MaxDepthBound == 1
\* max_concurrent_workers is drawn from 1..MaxWorkersBound.
MaxWorkersBound == 2

(***************************************************************************)
(* Program constants.                                                      *)
(***************************************************************************)
\* def get_hyper_links(self, url, depth, retry_times=3)
DefaultRetryTimes == 3

(***************************************************************************)
(* The web the crawler runs against (its environment).                     *)
(***************************************************************************)
URLS == 1..NumUrls

Main == 0
Workers == 1..MaxWorkersBound
Threads == {Main} \cup Workers

\* netloc of the parsed URL: every URL but the last is on the seeds' host.
Host(u) == IF u = NumUrls THEN "c.other.com" ELSE "a.example.com"

\* The status codes a completed request answers with.
StatusCodes == {200, 400, 404}

\* The exceptions of the transport that get_hyper_links catches.
Exceptions ==
    {"SSLError", "ConnectionError", "Timeout", "InvalidSchema", "ChunkedEncodingError"}

\* resp.headers['Content-Type']; "absent" is a response without the header.
ContentTypes == {"absent", "text/css", "text/html"}

\* config_dict['Content-Type']['static'] of config.yml
StaticContentTypes == {"text/css"}

\* Raw links of a page body: a link that resolves to a URL, a locator
\* ('#overview', discarded by parse_url) and a link urlparse rejects
\* ('http://[' makes urlparse raise ValueError: Invalid IPv6 URL).
RawUrl(u) == [kind |-> "url", target |-> u]
Locator == [kind |-> "locator", target |-> 0]
Malformed == [kind |-> "malformed", target |-> 0]

Succ(u) == IF u < NumUrls THEN u + 1 ELSE u

\* The bodies a page may hold (a page may change between two requests): one
\* linking to itself and its successor, and one linking further on.
PlainPage(u) == {RawUrl(u), RawUrl(Succ(u))}

OtherPage(u) == {RawUrl(Succ(Succ(u))), Locator}

\* A body holding a link that urlparse rejects.
BrokenPage(u) == {RawUrl(Succ(u)), Malformed}

(***************************************************************************)
(* Pure helpers.                                                           *)
(***************************************************************************)
\* str(resp.status_code)
Str(n) ==
    CASE n = 0 -> "0"
      [] n = 200 -> "200"
      [] n = 400 -> "400"
      [] n = 404 -> "404"

\* status_code.isdigit()
IsDigit(s) == s \in {"0", "200", "400", "404"}

\* int(status_code)
IntOf(s) ==
    CASE s = "0" -> 0
      [] s = "200" -> 200
      [] s = "400" -> 400
      [] s = "404" -> 404

\* helpers.get_md5(resp.content): a digest that tells the bodies apart.
get_md5(content) == <<"md5", content>>

NoMd5 == <<"None", {}>>

\* d[k] = v on a dict
Put(d, k, v) == [x \in DOMAIN d \cup {k} |-> IF x = k THEN v ELSE d[x]]

EmptyDict == [x \in {} |-> {}]

SeqToSet(s) == {s[i] : i \in 1..Len(s)}

\* Every order in which the elements of a set may be iterated.
Orders(S) ==
    {s \in [1..Cardinality(S) -> S] : \A i, j \in 1..Cardinality(S) : i # j => s[i] # s[j]}

VARIABLES
    probe,                   \* the URL whose server may answer in any way
    website_list,            \* the seeds (self.website_list), in order
    max_depth,               \* run parameter
    max_concurrent_workers,  \* run parameter
    current_depth,           \* self.current_depth
    unvisited_urls,          \* ledger: FIFO of queued entries
    visited_urls,            \* ledger: visited URL -> fingerprint
    categorised_urls,        \* self.categorised_urls: outcome key -> set of URLs
    bad_urls_mapping,        \* self.bad_urls_mapping: URL -> detail string
    web_urls_mapping,        \* self.web_urls_mapping: page URL -> links
    batch,                   \* current_depth_unvisited_urls_queue
    unfinished_tasks,        \* its count of tasks not yet task_done()
    thr,                     \* per thread: position and locals
    stack,                   \* DFS: the frames of crawler(url, depth)
    fetch_log,               \* history: per URL, the depths of its dispatches to get_hyper_links
    call                     \* the last call of a helper made on its own: arguments and result

vars ==
    <<probe, website_list, max_depth, max_concurrent_workers, current_depth, unvisited_urls,
      visited_urls, categorised_urls, bad_urls_mapping, web_urls_mapping, batch,
      unfinished_tasks, thr, stack, fetch_log, call>>

params == <<probe, website_list, max_depth, max_concurrent_workers>>

(***************************************************************************)
(* What the servers answer.  One URL of a run, the probe, is answered in   *)
(* every way the transport knows; every other URL is answered with 200 and *)
(* an HTML body that links to the page itself and to its successor.        *)
(***************************************************************************)
\* The exceptions requests.head(url) or requests.get(url) may raise.
RaisedFor(u) == IF u = probe THEN Exceptions ELSE {}

\* resp.status_code
StatusFor(u) == IF u = probe THEN StatusCodes ELSE {200}

\* resp.headers of the HEAD response
ContentTypeFor(u) == IF u = probe THEN ContentTypes ELSE {"text/html"}

\* resp.content of the GET response
PageVersions(u) ==
    IF u = probe THEN {PlainPage(u), OtherPage(u), BrokenPage(u)} ELSE {PlainPage(u)}

(***************************************************************************)
(* The URL ledger (UrlQueue), from its contract.  An entry carries, beside *)
(* the URL, the history field `due`: the first breadth-first round whose   *)
(* drain can hand it out (0 for a seed, d + 1 for a link found in round d).*)
(***************************************************************************)
Entry(u, due) == [url |-> u, due |-> due]

QueuedUrls(queue) == {queue[i].url : i \in 1..Len(queue)}

\* isVisited(url)
is_url_visited(url) == url \in DOMAIN visited_urls

\* The URLs of `urls` that addUnvisited inserts: those not already visited
\* and not already queued.
urls_to_insert(queue, visited, urls) ==
    {u \in urls : u \notin visited /\ u \notin QueuedUrls(queue)}

\* addUnvisited(urls): the queues that may result; the URLs of a set are
\* appended in the order the set is iterated.
add_unvisited_urls(queue, visited, urls, due) ==
    LET new == urls_to_insert(queue, visited, urls) IN
    {queue \o [i \in 1..Cardinality(new) |-> Entry(o[i], due)] : o \in Orders(new)}

\* markVisited(url, fingerprint)
add_visited_url(visited, url, md5) == Put(visited, url, md5)

(***************************************************************************)
(* reset_all: the state after construction.                                *)
(***************************************************************************)
\* self.internal_hosts_list
internal_hosts_list == {Host(website_list[i]) : i \in 1..Len(website_list)}

\* The locals of a thread that is not inside get_hyper_links.  `requests` is
\* a history field: the requests the last attempt has issued; so is `slept`:
\* the seconds the dispatch has slept before its retries.
Locals(pc) ==
    [pc |-> pc, url |-> 0, due |-> 0, retry_times |-> 0, attempts |-> 0, url_type |-> "",
     status_code |-> "0", resp_md5 |-> NoMd5, hyper_links_set |-> {}, requests |-> <<>>,
     slept |-> 0]

\* No helper has been called on its own.
NoCall == [op |-> "none"]

\* The seed lists of a run: one seed, or two seeds of the same host.
SeedLists == {<<1>>, <<1, 2>>}

reset_all(main_pc) ==
    /\ probe \in URLS
    /\ website_list \in SeedLists
    /\ max_depth \in 0..MaxDepthBound
    /\ max_concurrent_workers \in 1..MaxWorkersBound
    /\ current_depth = 0
    /\ unvisited_urls = [i \in 1..Len(website_list) |-> Entry(website_list[i], 0)]
    /\ visited_urls = EmptyDict
    /\ categorised_urls = EmptyDict
    /\ bad_urls_mapping = EmptyDict
    /\ web_urls_mapping = EmptyDict
    /\ batch = <<>>
    /\ unfinished_tasks = 0
    /\ thr = [t \in Threads |-> IF t = Main THEN Locals(main_pc) ELSE Locals("off")]
    /\ stack = <<>>
    /\ fetch_log = [u \in URLS |-> <<>>]
    /\ call = NoCall

(***************************************************************************)
(* get_url_type, parse_page_links.                                         *)
(***************************************************************************)
\* Mutant: the host is tested before the static content types.
get_url_type_external_first(content_type, req_host) ==
    IF content_type = "absent" THEN "IGNORE"
    ELSE IF req_host \notin internal_hosts_list THEN "external"
    ELSE IF content_type \in StaticContentTypes THEN "static"
    ELSE "recursive"

\* try: resp.headers['Content-Type'] / except KeyError: 'IGNORE'; then the
\* static content types, then the host.
get_url_type(content_type, req_host) ==
    IF content_type = "absent" THEN "IGNORE"
    ELSE IF content_type \in StaticContentTypes THEN "static"
    ELSE IF req_host \notin internal_hosts_list THEN "external"
    ELSE "recursive"

\* parse_page_links -> parse_urls -> parse_url: a locator is discarded, a
\* link that urlparse rejects raises (ValueError, which nothing catches),
\* any other link resolves to its URL.
parse_page_links(referer_url, content) ==
    [raised |-> \E l \in content : l.kind = "malformed",
     links |-> {l.target : l \in {x \in content : x.kind = "url"}}]

(***************************************************************************)
(* get_hyper_links.                                                        *)
(***************************************************************************)
\* The call get_hyper_links(url, depth): a new frame with retry_times=3.
\* `attempts` is a history field (the attempts of this dispatch so far), and
\* so is `due`, taken from the entry that is dispatched.
Dispatch(t, entry) ==
    /\ thr' = [thr EXCEPT ![t] =
                 [Locals("request") EXCEPT !.url = entry.url, !.due = entry.due,
                                           !.retry_times = DefaultRetryTimes]]
    /\ fetch_log' = [fetch_log EXCEPT ![entry.url] = Append(@, current_depth)]

\* str(ex), or the text built for a timeout
exception_text(exc) ==
    IF exc = "Timeout" THEN "Timed out for 30 seconds" ELSE "error: " \o exc

\* Mutant: the InvalidSchema clause forgets retry_times = 0.
retry_times_after_exception_ssl_only(exc, retry_times) ==
    IF exc \in {"SSLError"} THEN 0 ELSE retry_times

\* The except clauses that set retry_times = 0
retry_times_after_exception(exc, retry_times) ==
    IF exc \in {"SSLError", "InvalidSchema"} THEN 0 ELSE retry_times

\* Mutant: the IGNORE branch forgets retry_times = 0.
retry_times_after_head_kept(url_type, retry_times) == retry_times

\* url_type in ['static', 'external'], or 'IGNORE'
retry_times_after_head(url_type, retry_times) ==
    IF url_type = "IGNORE" THEN 0 ELSE retry_times

\* exception_str of a recursive page
http_error_text(status) ==
    IF status > 400 THEN "HTTP Status Code is " \o Str(status) \o "." ELSE ""

\* Mutant: the status test reads >= 400.
should_retry_from_400(retry_times, status_code) ==
    /\ retry_times > 0
    /\ (~IsDigit(status_code) \/ IntOf(status_code) >= 400)

\* Mutant: only a status above 404 is retried.
should_retry_above_404(retry_times, status_code) ==
    /\ retry_times > 0
    /\ (~IsDigit(status_code) \/ IntOf(status_code) > 404)

\* Mutant: the budget test reads retry_times > 1.
should_retry_one_less(retry_times, status_code) ==
    /\ retry_times > 1
    /\ (~IsDigit(status_code) \/ IntOf(status_code) > 400)

\* if retry_times > 0: if not status_code.isdigit() or int(status_code) > 400
should_retry(retry_times, status_code) ==
    /\ retry_times > 0
    /\ (~IsDigit(status_code) \/ IntOf(status_code) > 400)

\* Mutant: the detail is recorded only when a retry is left.
records_detail_with_budget(retry_times) == retry_times > 0

\* else: self.bad_urls_mapping[url] = exception_str
records_detail(retry_times) == ~(retry_times > 0)

\* Mutant: the delay doubles with every retry.
backoff_delay_doubling(retry_times) == 2 ^ (4 - retry_times)

\* time.sleep((4-retry_times)*2)
backoff_delay(retry_times) == (4 - retry_times) * 2

\* requests.head(url, **kwargs) alone, or followed by requests.get(url, **kwargs)
HeadOnly == <<"HEAD">>

HeadThenGet == <<"HEAD", "GET">>

\* What the thread keeps of the set it returns: visit_url drops the value
\* get_hyper_links returns, crawler recurses into it.
returned_links(t, links) == IF t = Main THEN links ELSE {}

\* The code after the try block: either the thread sleeps before it retries
\* in a new frame, or it records the detail when no retry is left and goes
\* on to save the outcome.
AfterAttempt(t, url_type, requests, retry_times, status_code, exception_str, resp_md5, links) ==
    IF should_retry(retry_times, status_code)
    THEN /\ thr' = [thr EXCEPT ![t].pc = "sleep",
                               ![t].slept = @ + backoff_delay(retry_times),
                               ![t].attempts = @ + 1,
                               ![t].url_type = url_type,
                               ![t].requests = requests,
                               ![t].retry_times = retry_times,
                               ![t].status_code = status_code]
         /\ UNCHANGED bad_urls_mapping
    ELSE /\ bad_urls_mapping' =
                IF records_detail(retry_times)
                THEN Put(bad_urls_mapping, thr[t].url, exception_str)
                ELSE bad_urls_mapping
         /\ thr' = [thr EXCEPT ![t].pc = "save_check",
                               ![t].attempts = @ + 1,
                               ![t].url_type = url_type,
                               ![t].requests = requests,
                               ![t].retry_times = retry_times,
                               ![t].status_code = status_code,
                               ![t].resp_md5 = resp_md5,
                               ![t].hyper_links_set = returned_links(t, links)]

\* An except clause: requests.head (url_type not yet set) or requests.get
\* (url_type is 'recursive') raised exc.
Caught(t, url_type, exc) ==
    /\ AfterAttempt(t, url_type, IF url_type = "recursive" THEN HeadThenGet ELSE HeadOnly,
                    retry_times_after_exception(exc, thr[t].retry_times), exc,
                    exception_text(exc), NoMd5, {})
    /\ UNCHANGED <<unvisited_urls, web_urls_mapping>>

\* Mutant: the body of a page that is not recursive is fetched and its links
\* are queued.
LeafFetchesBody(t, url_type, status) ==
    /\ AfterAttempt(t, url_type, HeadThenGet,
                    retry_times_after_head(url_type, thr[t].retry_times),
                    Str(status), "", NoMd5, {})
    /\ unvisited_urls' \in
           add_unvisited_urls(unvisited_urls, DOMAIN visited_urls,
                              parse_page_links(thr[t].url, PlainPage(thr[t].url)).links,
                              current_depth + 1)
    /\ UNCHANGED web_urls_mapping

\* A HEAD response classified static, external or IGNORE.
Leaf(t, url_type, status) ==
    /\ AfterAttempt(t, url_type, HeadOnly,
                    retry_times_after_head(url_type, thr[t].retry_times),
                    Str(status), "", NoMd5, {})
    /\ UNCHANGED <<unvisited_urls, web_urls_mapping>>

\* Mutant: the link graph entry is written by every recursive attempt.
ExpandOverwrites(t, status, content) ==
    LET url == thr[t].url
        parsed == parse_page_links(url, content)
    IN
    IF parsed.raised
    THEN /\ thr' = [thr EXCEPT ![t] = [Locals("raised") EXCEPT !.url = url,
                                                               !.url_type = "recursive",
                                                               !.requests = HeadThenGet]]
         /\ UNCHANGED <<unvisited_urls, web_urls_mapping, bad_urls_mapping>>
    ELSE /\ web_urls_mapping' = Put(web_urls_mapping, url, parsed.links)
         /\ unvisited_urls' \in
                add_unvisited_urls(unvisited_urls, DOMAIN visited_urls, parsed.links,
                                   current_depth + 1)
         /\ AfterAttempt(t, "recursive", HeadThenGet, thr[t].retry_times, Str(status),
                         http_error_text(status), get_md5(content), parsed.links)

\* url_type == 'recursive': GET, fingerprint, links, link graph, ledger.
Expand(t, status, content) ==
    LET url == thr[t].url
        parsed == parse_page_links(url, content)
    IN
    IF parsed.raised
    THEN \* the exception leaves get_hyper_links and ends the thread
         /\ thr' = [thr EXCEPT ![t] = [Locals("raised") EXCEPT !.url = url,
                                                               !.url_type = "recursive",
                                                               !.requests = HeadThenGet]]
         /\ UNCHANGED <<unvisited_urls, web_urls_mapping, bad_urls_mapping>>
    ELSE /\ web_urls_mapping' =
                IF url \notin DOMAIN web_urls_mapping
                THEN Put(web_urls_mapping, url, parsed.links)
                ELSE web_urls_mapping
         /\ unvisited_urls' \in
                add_unvisited_urls(unvisited_urls, DOMAIN visited_urls, parsed.links,
                                   current_depth + 1)
         /\ AfterAttempt(t, "recursive", HeadThenGet, thr[t].retry_times, Str(status),
                         http_error_text(status), get_md5(content), parsed.links)

\* One attempt: HEAD, classification, GET, and the code after the try block.
Attempt(t) ==
    /\ thr[t].pc = "request"
    /\ \/ \E exc \in RaisedFor(thr[t].url) : Caught(t, "", exc)
       \/ \E status \in StatusFor(thr[t].url), ct \in ContentTypeFor(thr[t].url) :
            /\ get_url_type(ct, Host(thr[t].url)) # "recursive"
            /\ Leaf(t, get_url_type(ct, Host(thr[t].url)), status)
       \/ \E ct \in ContentTypeFor(thr[t].url) :
            /\ get_url_type(ct, Host(thr[t].url)) = "recursive"
            /\ \/ \E exc \in RaisedFor(thr[t].url) : Caught(t, "recursive", exc)
               \/ \E status \in StatusFor(thr[t].url), content \in PageVersions(thr[t].url) :
                    Expand(t, status, content)
    /\ UNCHANGED <<params, call, current_depth, visited_urls, categorised_urls, batch,
                   unfinished_tasks, stack, fetch_log>>

\* The sleep is over: return self.get_hyper_links(url, depth, retry_times-1)
Retry(t) ==
    /\ thr[t].pc = "sleep"
    /\ thr' = [thr EXCEPT ![t].pc = "request",
                          ![t].retry_times = @ - 1,
                          ![t].url_type = "",
                          ![t].requests = <<>>,
                          ![t].status_code = "0"]
    /\ UNCHANGED <<params, call, current_depth, unvisited_urls, visited_urls, categorised_urls,
                   bad_urls_mapping, web_urls_mapping, batch, unfinished_tasks, stack,
                   fetch_log>>

\* save_categorised_url: if status_code not in self.categorised_urls
SaveCheck(t) ==
    /\ thr[t].pc = "save_check"
    /\ thr' = [thr EXCEPT ![t].pc =
                            IF thr[t].status_code \notin DOMAIN categorised_urls
                            THEN "save_create" ELSE "save_add",
                          ![t].retry_times = 0,
                          ![t].attempts = 0,
                          ![t].requests = <<>>,
                          ![t].slept = 0]
    /\ UNCHANGED <<params, call, current_depth, unvisited_urls, visited_urls, categorised_urls,
                   bad_urls_mapping, web_urls_mapping, batch, unfinished_tasks, stack,
                   fetch_log>>

\* save_categorised_url: self.categorised_urls[status_code] = set()
SaveCreate(t) ==
    /\ thr[t].pc = "save_create"
    /\ categorised_urls' = Put(categorised_urls, thr[t].status_code, {})
    /\ thr' = [thr EXCEPT ![t].pc = "save_add"]
    /\ UNCHANGED <<params, call, current_depth, unvisited_urls, visited_urls, bad_urls_mapping,
                   web_urls_mapping, batch, unfinished_tasks, stack, fetch_log>>

\* save_categorised_url: self.categorised_urls[status_code].add(url)
SaveAdd(t) ==
    /\ thr[t].pc = "save_add"
    /\ categorised_urls' =
           Put(categorised_urls, thr[t].status_code,
               categorised_urls[thr[t].status_code] \cup {thr[t].url})
    /\ thr' = [thr EXCEPT ![t].pc = "visit"]
    /\ UNCHANGED <<params, call, current_depth, unvisited_urls, visited_urls, bad_urls_mapping,
                   web_urls_mapping, batch, unfinished_tasks, stack, fetch_log>>

\* The end of get_hyper_links: add_visited_url(url, resp_md5) and the return
\* of hyper_links_set.  A breadth-first worker (visit_url) then calls
\* task_done() and loops; the depth-first crawler keeps the links to recurse.
Finish(t) ==
    /\ thr[t].pc = "visit"
    /\ visited_urls' = add_visited_url(visited_urls, thr[t].url, thr[t].resp_md5)
    /\ IF t = Main
       THEN /\ stack' = [stack EXCEPT ![Len(stack)].urls = thr[t].hyper_links_set]
            /\ thr' = [thr EXCEPT ![t] = Locals("crawl_iter")]
            /\ UNCHANGED unfinished_tasks
       ELSE /\ unfinished_tasks' = unfinished_tasks - 1
            /\ thr' = [thr EXCEPT ![t] = Locals("get")]
            /\ UNCHANGED stack
    /\ UNCHANGED <<params, call, current_depth, unvisited_urls, categorised_urls, bad_urls_mapping,
                   web_urls_mapping, batch, fetch_log>>

(***************************************************************************)
(* run_bfs, concurrent_visit_all_unvisited_urls, visit_url.                *)
(***************************************************************************)
\* q_size < max_concurrent_workers ? q_size : max_concurrent_workers
worker_threads_num(q_size, workers) == IF q_size < workers THEN q_size ELSE workers

\* while self.current_depth <= max_depth
bfs_continues(depth, limit) == depth <= limit

\* One pass of the loop of run_bfs up to the start of the workers: the ledger
\* is drained into the batch and the worker threads are started.
BfsRound ==
    /\ thr[Main].pc = "bfs_loop"
    /\ bfs_continues(current_depth, max_depth)
    /\ batch' = unvisited_urls
    /\ unvisited_urls' = <<>>
    /\ unfinished_tasks' = Len(unvisited_urls)
    /\ thr' = [t \in Threads |->
                 IF t = Main THEN Locals("queue_join")
                 ELSE IF t <= worker_threads_num(Len(unvisited_urls), max_concurrent_workers)
                      THEN Locals("get") ELSE Locals("off")]
    /\ UNCHANGED <<params, call, current_depth, visited_urls, categorised_urls, bad_urls_mapping,
                   web_urls_mapping, stack, fetch_log>>

\* run_bfs returns
BfsReturn ==
    /\ thr[Main].pc = "bfs_loop"
    /\ ~bfs_continues(current_depth, max_depth)
    /\ thr' = [thr EXCEPT ![Main].pc = "done"]
    /\ UNCHANGED <<params, call, current_depth, unvisited_urls, visited_urls, categorised_urls,
                   bad_urls_mapping, web_urls_mapping, batch, unfinished_tasks, stack,
                   fetch_log>>

\* current_depth_unvisited_urls_queue.join()
QueueJoin ==
    /\ thr[Main].pc = "queue_join"
    /\ unfinished_tasks = 0
    /\ thr' = [thr EXCEPT ![Main].pc = "thread_join"]
    /\ UNCHANGED <<params, call, current_depth, unvisited_urls, visited_urls, categorised_urls,
                   bad_urls_mapping, web_urls_mapping, batch, unfinished_tasks, stack,
                   fetch_log>>

\* A thread that thread.join() no longer waits for.
thread_ended(pc) == pc \in {"off", "exited", "raised"}

\* for thread in threads: thread.join(); then self.current_depth += 1
ThreadJoin ==
    /\ thr[Main].pc = "thread_join"
    /\ \A w \in Workers : thread_ended(thr[w].pc)
    /\ current_depth' = current_depth + 1
    /\ thr' = [thr EXCEPT ![Main].pc = "bfs_loop"]
    /\ UNCHANGED <<params, call, unvisited_urls, visited_urls, categorised_urls, bad_urls_mapping,
                   web_urls_mapping, batch, unfinished_tasks, stack, fetch_log>>

\* Mutant: the worker reads the head of the batch without removing it.
WorkerGetPeek(w) ==
    /\ thr[w].pc = "get"
    /\ batch # <<>>
    /\ Dispatch(w, Head(batch))
    /\ UNCHANGED <<params, call, current_depth, unvisited_urls, visited_urls, categorised_urls,
                   bad_urls_mapping, web_urls_mapping, batch, unfinished_tasks, stack>>

\* visit_url: unvisited_urls_queue.get(block=True, timeout=5) hands out the
\* head of the batch, and the worker calls get_hyper_links on it.
WorkerGet(w) ==
    /\ thr[w].pc = "get"
    /\ batch # <<>>
    /\ batch' = Tail(batch)
    /\ Dispatch(w, Head(batch))
    /\ UNCHANGED <<params, call, current_depth, unvisited_urls, visited_urls, categorised_urls,
                   bad_urls_mapping, web_urls_mapping, unfinished_tasks, stack>>

\* Mutant: a worker that finds the batch empty goes on with the ledger.
WorkerFallsBackToLedger(w) ==
    /\ thr[w].pc = "get"
    /\ batch = <<>>
    /\ IF unvisited_urls = <<>>
       THEN /\ thr' = [thr EXCEPT ![w].pc = "exited"]
            /\ UNCHANGED <<unvisited_urls, fetch_log>>
       ELSE /\ unvisited_urls' = Tail(unvisited_urls)
            /\ Dispatch(w, Head(unvisited_urls))
    /\ UNCHANGED <<params, call, current_depth, visited_urls, categorised_urls, bad_urls_mapping,
                   web_urls_mapping, batch, unfinished_tasks, stack>>

\* visit_url: queue.Empty after the timeout ends the worker.
WorkerExit(w) ==
    /\ thr[w].pc = "get"
    /\ batch = <<>>
    /\ thr' = [thr EXCEPT ![w].pc = "exited"]
    /\ UNCHANGED <<params, call, current_depth, unvisited_urls, visited_urls, categorised_urls,
                   bad_urls_mapping, web_urls_mapping, batch, unfinished_tasks, stack,
                   fetch_log>>

(***************************************************************************)
(* run_dfs and its recursive crawler(url, depth).                          *)
(***************************************************************************)
Frame(u, depth) == [url |-> u, depth |-> depth, urls |-> {}]

\* The position of the main thread once the top frame has returned.
after_return(frames) == IF frames = <<>> THEN "dfs_loop" ELSE "crawl_iter"

\* while not is_unvisited_urls_empty(): crawler(get_one_unvisited_url(), current_depth)
DfsLoop ==
    /\ thr[Main].pc = "dfs_loop"
    /\ IF unvisited_urls = <<>>
       THEN /\ thr' = [thr EXCEPT ![Main].pc = "done"]
            /\ UNCHANGED <<unvisited_urls, stack>>
       ELSE /\ unvisited_urls' = Tail(unvisited_urls)
            /\ stack' = <<Frame(Head(unvisited_urls).url, current_depth)>>
            /\ thr' = [thr EXCEPT ![Main].pc = "crawler"]
    /\ UNCHANGED <<params, call, current_depth, visited_urls, categorised_urls, bad_urls_mapping,
                   web_urls_mapping, batch, unfinished_tasks, fetch_log>>

\* if depth > max_depth: return
beyond_max_depth(depth, limit) == depth > limit

\* The head of crawler: the depth check, the visited check, the fetch.
CrawlerEnter ==
    /\ thr[Main].pc = "crawler"
    /\ LET f == stack[Len(stack)] IN
       IF beyond_max_depth(f.depth, max_depth)
       THEN /\ stack' = SubSeq(stack, 1, Len(stack) - 1)
            /\ thr' = [thr EXCEPT ![Main].pc = after_return(stack')]
            /\ UNCHANGED fetch_log
       ELSE IF is_url_visited(f.url)
       THEN /\ thr' = [thr EXCEPT ![Main].pc = "crawl_iter"]
            /\ UNCHANGED <<stack, fetch_log>>
       ELSE /\ Dispatch(Main, Entry(f.url, 0))
            /\ UNCHANGED stack
    /\ UNCHANGED <<params, call, current_depth, unvisited_urls, visited_urls, categorised_urls,
                   bad_urls_mapping, web_urls_mapping, batch, unfinished_tasks>>

\* for url in urls: crawler(url, depth+1); the frame returns after the loop.
CrawlIter ==
    /\ thr[Main].pc = "crawl_iter"
    /\ LET f == stack[Len(stack)] IN
       IF f.urls = {}
       THEN /\ stack' = SubSeq(stack, 1, Len(stack) - 1)
            /\ thr' = [thr EXCEPT ![Main].pc = after_return(stack')]
       ELSE \E u \in f.urls :
            /\ stack' = Append([stack EXCEPT ![Len(stack)].urls = f.urls \ {u}],
                               Frame(u, f.depth + 1))
            /\ thr' = [thr EXCEPT ![Main].pc = "crawler"]
    /\ UNCHANGED <<params, call, current_depth, unvisited_urls, visited_urls, categorised_urls,
                   bad_urls_mapping, web_urls_mapping, batch, unfinished_tasks, fetch_log>>

(***************************************************************************)
(* The specifications: a breadth-first run and a depth-first run.          *)
(***************************************************************************)
GetHyperLinks(t) ==
    \/ Attempt(t)
    \/ Retry(t)
    \/ SaveCheck(t)
    \/ SaveCreate(t)
    \/ SaveAdd(t)
    \/ Finish(t)

Init == reset_all("bfs_loop")

Next ==
    \/ BfsRound
    \/ BfsReturn
    \/ QueueJoin
    \/ ThreadJoin
    \/ \E w \in Workers : WorkerGet(w)
    \/ \E w \in Workers : WorkerExit(w)
    \/ \E w \in Workers : GetHyperLinks(w)

Spec == Init /\ [][Next]_vars

\* A breadth-first run in which a thread that can take a step is scheduled
\* in the end, and a request is answered or times out.
FairSpec == Spec /\ WF_vars(Next)

InitDfs == reset_all("dfs_loop")

NextDfs ==
    \/ DfsLoop
    \/ CrawlerEnter
    \/ CrawlIter
    \/ GetHyperLinks(Main)

SpecDfs == InitDfs /\ [][NextDfs]_vars

(***************************************************************************)
(* Strings of the URL resolver.  A string is the sequence of its           *)
(* characters, so that prefixes, splits and strips are computed as the     *)
(* library computes them.                                                  *)
(***************************************************************************)
Letters ==
    {"a", "b", "c", "d", "e", "f", "g", "h", "i", "j", "k", "l", "m", "n", "o", "p", "q",
     "r", "s", "t", "u", "v", "w", "x", "y", "z"}

Digits == {"0", "1", "2", "3", "4", "5", "6", "7", "8", "9"}

\* urllib.parse.scheme_chars (the lower-case part)
scheme_chars == Letters \cup Digits \cup {"+", "-", "."}

\* s[n:]
Drop(s, n) == SubSeq(s, n + 1, Len(s))

\* s[:n]
Take(s, n) == SubSeq(s, 1, n)

\* s.startswith(prefix)
StartsWith(s, prefix) == Len(s) >= Len(prefix) /\ Take(s, Len(prefix)) = prefix

\* s.find(sub) counted from 1: the first position where sub occurs, 0 if none
Find(s, sub) ==
    LET hits == {i \in 1..(Len(s) - Len(sub) + 1) : SubSeq(s, i, i + Len(sub) - 1) = sub}
    IN IF hits = {} THEN 0 ELSE CHOOSE i \in hits : \A j \in hits : i <= j

\* The first position of s holding a character of chars, 0 if none
FindAny(s, chars) ==
    LET hits == {i \in 1..Len(s) : s[i] \in chars}
    IN IF hits = {} THEN 0 ELSE CHOOSE i \in hits : \A j \in hits : i <= j

\* s.replace(old, new)
RECURSIVE Replace(_, _, _)
Replace(s, old, new) ==
    IF s = <<>> THEN <<>>
    ELSE IF StartsWith(s, old) THEN new \o Replace(Drop(s, Len(old)), old, new)
    ELSE <<Head(s)>> \o Replace(Tail(s), old, new)

\* s.lstrip(chars): every leading character that is in chars is removed
RECURSIVE lstrip(_, _)
lstrip(s, chars) ==
    IF s # <<>> /\ Head(s) \in chars THEN lstrip(Tail(s), chars) ELSE s

\* s.split(sep) for a separator of one character
RECURSIVE split(_, _)
split(s, sep) ==
    LET i == FindAny(s, {sep}) IN
    IF i = 0 THEN <<s>> ELSE <<Take(s, i - 1)>> \o split(Drop(s, i), sep)

\* sep.join(parts)
RECURSIVE join(_, _)
join(parts, sep) ==
    IF parts = <<>> THEN <<>>
    ELSE IF Len(parts) = 1 THEN parts[1]
    ELSE parts[1] \o <<sep>> \o join(Tail(parts), sep)

\* re.sub(r"@!.*$", "", url): the string is cut at the first '@!'
strip_size_suffix(s) ==
    LET i == Find(s, <<"@", "!">>) IN IF i = 0 THEN s ELSE Take(s, i - 1)

\* bytes.decode('unicode_escape') on the escapes the drawn links hold: \" is
\* a quote, \\ a backslash, a backslash before any other character is
\* kept, and a backslash that ends the string raises UnicodeDecodeError
\* (the result is then the one-element sequence <<"UnicodeDecodeError">>
\* at its end).
RECURSIVE unicode_escape(_)
unicode_escape(s) ==
    IF s = <<>> THEN <<>>
    ELSE IF Head(s) # "\\" THEN <<Head(s)>> \o unicode_escape(Tail(s))
    ELSE IF Len(s) = 1 THEN <<"UnicodeDecodeError">>
    ELSE IF s[2] \in {"\"", "\\"} THEN <<s[2]>> \o unicode_escape(Drop(s, 2))
    ELSE <<s[1], s[2]>> \o unicode_escape(Drop(s, 2))

decode_raised(s) == s # <<>> /\ s[Len(s)] = "UnicodeDecodeError"

(***************************************************************************)
(* urlparse and geturl of urllib.parse, and parse_url.                     *)
(***************************************************************************)
\* str.lower() on the characters of a scheme
lower(c) == CASE c = "H" -> "h" [] c = "T" -> "t" [] c = "P" -> "p" [] OTHER -> c

UpperCase == {"H", "T", "P"}

\* urlsplit: url[:i] is a scheme if i > 0, url[0] is a letter and every
\* character before the colon is a scheme character
scheme_end(url) ==
    LET i == FindAny(url, {":"}) IN
    IF /\ i > 1
       /\ url[1] \in Letters \cup UpperCase
       /\ \A k \in 1..(i - 1) : url[k] \in scheme_chars \cup UpperCase
    THEN i ELSE 0

\* urlsplit, last step: the query is what follows the first '?'
split_query(scheme, netloc, rest, fragment, q) ==
    [raised |-> Cardinality({c \in {"[", "]"} : \E k \in 1..Len(netloc) : netloc[k] = c}) = 1,
     scheme |-> scheme,
     netloc |-> netloc,
     path |-> IF q = 0 THEN rest ELSE Take(rest, q - 1),
     query |-> IF q = 0 THEN <<>> ELSE Drop(rest, q),
     fragment |-> fragment]

\* urlsplit: the fragment is what follows the first '#'
split_fragment(scheme, netloc, rest, f) ==
    IF f = 0
    THEN split_query(scheme, netloc, rest, <<>>, FindAny(rest, {"?"}))
    ELSE split_query(scheme, netloc, Take(rest, f - 1), Drop(rest, f),
                     FindAny(Take(rest, f - 1), {"?"}))

\* _splitnetloc(url, 2): the netloc ends before the first of '/', '?', '#'
splitnetloc(scheme, rest, d) ==
    IF d = 0
    THEN split_fragment(scheme, Drop(rest, 2), <<>>, 0)
    ELSE split_fragment(scheme, SubSeq(rest, 3, d + 1), Drop(rest, d + 1),
                        FindAny(Drop(rest, d + 1), {"#"}))

\* urlsplit: if url[:2] == '//' the netloc is split off
split_netloc(scheme, rest) ==
    IF StartsWith(rest, <<"/", "/">>)
    THEN splitnetloc(scheme, rest, FindAny(Drop(rest, 2), {"/", "?", "#"}))
    ELSE split_fragment(scheme, <<>>, rest, FindAny(rest, {"#"}))

\* urlsplit: scheme, url = url[:i].lower(), url[i+1:]
split_scheme(url, i) ==
    split_netloc([k \in 1..(IF i = 0 THEN 0 ELSE i - 1) |-> lower(url[k])], Drop(url, i))

\* urlparse(url): scheme, netloc, path, query and fragment; `raised` is the
\* ValueError('Invalid IPv6 URL') of a netloc with one bracket only.
urlparse(url) == split_scheme(url, scheme_end(url))

\* urllib.parse.uses_netloc (the schemes of the drawn URLs)
uses_netloc == {<<"h", "t", "t", "p">>, <<"h", "t", "t", "p", "s">>}

\* urlunsplit: scheme, query and fragment are put around the URL
with_scheme_and_query(o, url) ==
    (IF o.scheme # <<>> THEN o.scheme \o <<":">> ELSE <<>>) \o url
        \o (IF o.query # <<>> THEN <<"?">> \o o.query ELSE <<>>)
        \o (IF o.fragment # <<>> THEN <<"#">> \o o.fragment ELSE <<>>)

\* ParseResult.geturl(): urlunparse of the components
geturl(o) ==
    IF \/ o.netloc # <<>>
       \/ o.scheme \in uses_netloc /\ ~StartsWith(o.path, <<"/", "/">>)
    THEN with_scheme_and_query(o,
             <<"/", "/">> \o o.netloc
                 \o (IF o.path # <<>> /\ o.path[1] # "/" THEN <<"/">> ELSE <<>>) \o o.path)
    ELSE with_scheme_and_query(o, o.path)

\* What parse_url hands back: a value, or the exception that left it.
None == <<"None">>

Returned(value) == [raised |-> "", value |-> value]

Raised(exc) == [raised |-> exc, value |-> None]

\* path_list[-1] = ...; new_path = '/'.join(path_list); the IndexError is
\* that of an assignment to the last element of an empty list
with_new_path(origin_parsed_obj, referer, path_list, last) ==
    IF path_list = <<>> THEN Raised("IndexError")
    ELSE Returned([origin_parsed_obj EXCEPT
             !.path = join([path_list EXCEPT ![Len(path_list)] = last], "/"),
             !.scheme = referer.scheme,
             !.netloc = referer.netloc])

\* The else branch of _make_url_by_referer: a link relative to the
\* referer's path
relative_to_path(origin_parsed_obj, referer, path_list) ==
    IF StartsWith(origin_parsed_obj.path, <<".", ".", "/">>)
    THEN with_new_path(origin_parsed_obj, referer, Take(path_list, Len(path_list) - 1),
                       lstrip(origin_parsed_obj.path, {".", "/"}))
    ELSE with_new_path(origin_parsed_obj, referer, path_list, origin_parsed_obj.path)

\* The branches of _make_url_by_referer that parse the referer
relative_to_referer(origin_parsed_obj, referer) ==
    IF referer.raised THEN Raised("ValueError")
    ELSE IF StartsWith(origin_parsed_obj.path, <<"/">>)
    THEN Returned([origin_parsed_obj EXCEPT !.scheme = referer.scheme,
                                            !.netloc = referer.netloc])
    ELSE relative_to_path(origin_parsed_obj, referer, split(referer.path, "/"))

\* _make_url_by_referer(origin_parsed_obj, referer_url)
make_url_by_referer(origin_parsed_obj, referer_url) ==
    IF origin_parsed_obj.scheme # <<>> THEN Returned(origin_parsed_obj)
    ELSE IF origin_parsed_obj.netloc # <<>>
    THEN Returned([origin_parsed_obj EXCEPT !.scheme = <<"h", "t", "t", "p">>])
    ELSE relative_to_referer(origin_parsed_obj, urlparse(referer_url))

\* return parsed_object.geturl()
return_geturl(made) == IF made.raised # "" THEN made ELSE Returned(geturl(made.value))

\* parse_url from get_parsed_object_from_url on: the fragment is removed and
\* the URL is made by the referer
resolve(parsed_object, referer_url) ==
    IF parsed_object.raised THEN Raised("ValueError")
    ELSE return_geturl(make_url_by_referer([parsed_object EXCEPT !.fragment = <<>>],
                                           referer_url))

\* The link that begins with an escaped quote: decode, replace, return
unescape(decoded) ==
    IF decode_raised(decoded) THEN Raised("UnicodeDecodeError")
    ELSE Returned(Replace(Replace(decoded, <<"\\", "/">>, <<"/">>), <<"\"">>, <<>>))

\* parse_url after url = url.replace(' ', '')
parse_stripped(url, referer_url) ==
    IF url = <<>> THEN Returned(None)
    ELSE IF StartsWith(url, <<"#">>) THEN Returned(None)
    ELSE IF StartsWith(url, <<"j", "a", "v", "a", "s", "c", "r", "i", "p", "t">>) THEN Returned(None)
    ELSE IF StartsWith(url, <<"m", "a", "i", "l", "t", "o">>) THEN Returned(None)
    ELSE IF StartsWith(url, <<"t", "e", "l", ":">>) THEN Returned(None)
    ELSE IF StartsWith(url, <<"\\", "\"">>) THEN unescape(unicode_escape(url))
    ELSE IF StartsWith(url, <<"d", "a", "t", "a", ":">>) THEN Returned(None)
    ELSE IF Find(url, <<"@", "!">>) # 0 THEN resolve(urlparse(strip_size_suffix(url)), referer_url)
    ELSE resolve(urlparse(url), referer_url)

\* parse_url(url, referer_url)
parse_url(raw_url, referer_url) == parse_stripped(Replace(raw_url, <<" ">>, <<>>), referer_url)

(***************************************************************************)
(* The raw links and the referers parse_url is called on.                  *)
(***************************************************************************)
\* http://b.co/x, https://a.co/q#t
AbsoluteLinks ==
    {<<"h", "t", "t", "p", ":", "/", "/", "b", ".", "c", "o", "/", "x">>,
     <<"h", "t", "t", "p", "s", ":", "/", "/", "a", ".", "c", "o", "/", "q", "#", "t">>}

\* //b.co/i
SchemeRelativeLinks ==
    {<<"/", "/", "b", ".", "c", "o", "/", "i">>}

\* /c/d
RootRelativeLinks ==
    {<<"/", "c", "/", "d">>}

\* ../e, ../../e, ../.e
ParentRelativeLinks ==
    {<<".", ".", "/", "e">>,
     <<".", ".", "/", ".", ".", "/", "e">>,
     <<".", ".", "/", ".", "e">>}

\* e, e?k
SiblingLinks ==
    {<<"e">>,
     <<"e", "?", "k">>}

\* the empty link, #t, javascript:v, mailto:a, tel:1, data:x
DiscardedLinks ==
    {<<>>,
     <<"#", "t">>,
     <<"j", "a", "v", "a", "s", "c", "r", "i", "p", "t", ":", "v">>,
     <<"m", "a", "i", "l", "t", "o", ":", "a">>,
     <<"t", "e", "l", ":", "1">>,
     <<"d", "a", "t", "a", ":", "x">>}

\* \"http:\/\/b.co\/g\/", \"e and \"e\ (each begins with backslash, quote)
EscapedLinks ==
    {<<"\\", "\"", "h", "t", "t", "p", ":", "\\", "/", "\\", "/", "b", ".", "c", "o", "\\", "/", "g", "\\", "/", "\"">>,
     <<"\\", "\"", "e">>,
     <<"\\", "\"", "e", "\\">>}

\* http://[ (one bracket), '/ c' (a space inside), e@!9 (a size suffix)
OtherLinks ==
    {<<"h", "t", "t", "p", ":", "/", "/", "[">>,
     <<"/", " ", "c">>,
     <<"e", "@", "!", "9">>}

FiveFormLinks ==
    AbsoluteLinks \cup SchemeRelativeLinks \cup RootRelativeLinks \cup ParentRelativeLinks
        \cup SiblingLinks

RawLinks == FiveFormLinks \cup DiscardedLinks \cup EscapedLinks \cup OtherLinks

\* https://a.co/p/o, https://a.co/o, https://a.co/ and https://a.co (empty path)
Referers ==
    {<<"h", "t", "t", "p", "s", ":", "/", "/", "a", ".", "c", "o", "/", "p", "/", "o">>,
     <<"h", "t", "t", "p", "s", ":", "/", "/", "a", ".", "c", "o", "/", "o">>,
     <<"h", "t", "t", "p", "s", ":", "/", "/", "a", ".", "c", "o", "/">>,
     <<"h", "t", "t", "p", "s", ":", "/", "/", "a", ".", "c", "o">>}

(***************************************************************************)
(* The helpers called on their own, on arguments drawn from bounded sets:   *)
(* one call in a behaviour.                                                *)
(***************************************************************************)
crawl_vars ==
    <<probe, website_list, max_depth, max_concurrent_workers, current_depth, unvisited_urls,
      visited_urls, categorised_urls, bad_urls_mapping, web_urls_mapping, batch,
      unfinished_tasks, thr, stack, fetch_log>>

\* url_type = self.get_url_type(resp, url_host)
CallGetUrlType ==
    \E content_type \in ContentTypes, u \in URLS :
        /\ call = NoCall
        /\ call' = [op |-> "get_url_type", content_type |-> content_type,
                    req_host |-> Host(u),
                    url_type |-> get_url_type(content_type, Host(u))]
        /\ UNCHANGED crawl_vars

\* parsed_url = self.parse_url(url, referer_url)
CallParseUrl ==
    \E url \in RawLinks, referer_url \in Referers :
        /\ call = NoCall
        /\ call' = [op |-> "parse_url", url |-> url, referer_url |-> referer_url,
                    result |-> parse_url(url, referer_url)]
        /\ UNCHANGED crawl_vars

InitHelpers == reset_all("off")

NextHelpers ==
    \/ CallGetUrlType
    \/ CallParseUrl

SpecHelpers == InitHelpers /\ [][NextHelpers]_vars

(***************************************************************************)
(* Properties.                                                             *)
(***************************************************************************)
\* A thread inside get_hyper_links.
InDispatch(t) ==
    thr[t].pc \in {"request", "sleep", "save_check", "save_create", "save_add", "visit"}

\* A thread past the last attempt of its dispatch.
PastAttempts(t) == thr[t].pc \in {"save_check", "save_create", "save_add", "visit"}

\* The step that ends the dispatch of thread t.
Finishes(t) == thr[t].pc = "visit" /\ thr'[t].pc # "visit"

Bucket(key) == IF key \in DOMAIN categorised_urls THEN categorised_urls[key] ELSE {}

TransientFailures == {"ConnectionError", "Timeout", "ChunkedEncodingError"}

PermanentFailures == {"SSLError", "InvalidSchema"}

\* C1: each URL is dispatched to get_hyper_links at most once in a run,
\* also when it is found again while queued, in flight or visited.
C1_EachUrlFetchedAtMostOnce == \A u \in URLS : Len(fetch_log[u]) <= 1

C1_SomeUrlFetched == \E u \in URLS : Len(fetch_log[u]) = 1 /\ u \in DOMAIN visited_urls

\* C2: the outcome buckets of the categorisation map are pairwise disjoint.
C2_BucketsPairwiseDisjoint ==
    \A k1, k2 \in DOMAIN categorised_urls :
        k1 # k2 => categorised_urls[k1] \cap categorised_urls[k2] = {}

\* C3: a dispatch that ends in a transient failure has made exactly 4
\* attempts (so has one whose every attempt failed that way), has a detail
\* entry, and is recorded under the failure tag and marked visited.
C3_TransientFailureTriedFourTimes ==
    /\ [](\A t \in Threads :
            (thr[t].status_code \in TransientFailures /\ thr[t].pc = "sleep")
                => thr[t].attempts < 4)
    /\ [](\A t \in Threads :
            (thr[t].status_code \in TransientFailures /\ thr[t].pc = "save_check")
                => /\ thr[t].attempts = 4
                   /\ thr[t].url \in DOMAIN bad_urls_mapping
                   /\ bad_urls_mapping[thr[t].url] # "")
    /\ [][\A t \in Threads :
            (Finishes(t) /\ thr[t].status_code \in TransientFailures)
                => /\ thr[t].status_code \in DOMAIN categorised_urls'
                   /\ thr[t].url \in categorised_urls'[thr[t].status_code]
                   /\ thr[t].url \in DOMAIN bad_urls_mapping'
                   /\ thr[t].url \in DOMAIN visited_urls']_vars

C3_TimedOutUrlRecorded ==
    \E u \in URLS :
        /\ u \in Bucket("Timeout")
        /\ u \in DOMAIN bad_urls_mapping
        /\ u \in DOMAIN visited_urls

\* C4: after an attempt another one follows exactly if the remaining retry
\* budget is above 0 and the outcome is a failure tag or a status above 400.
C4_RetryIffBudgetAndFailure ==
    [][\A t \in Threads :
        /\ (thr[t].pc = "request" /\ thr'[t].pc \in {"sleep", "save_check"})
              => ((thr'[t].pc = "sleep") <=>
                    /\ thr'[t].retry_times > 0
                    /\ \/ thr'[t].status_code \in Exceptions
                       \/ /\ IsDigit(thr'[t].status_code)
                          /\ IntOf(thr'[t].status_code) > 400)
        /\ (thr[t].pc = "sleep" /\ thr'[t].pc # "sleep") => thr'[t].pc = "request"]_vars

C4_Status400EndsDispatchWithBudgetLeft ==
    \E t \in Threads :
        thr[t].pc = "save_check" /\ thr[t].status_code = "400" /\ thr[t].retry_times > 0

\* C5: after an SSLError or an InvalidSchema no further attempt is made,
\* whatever budget was left; the URL gets a detail entry, is recorded under
\* the failure tag and is marked visited.
C5_PermanentFailureNeverRetried ==
    /\ [](\A t \in Threads :
            thr[t].status_code \in PermanentFailures
                => /\ thr[t].pc # "sleep"
                   /\ PastAttempts(t) => thr[t].url \in DOMAIN bad_urls_mapping
                   /\ thr[t].pc = "visit" => thr[t].url \in Bucket(thr[t].status_code))
    /\ [][\A t \in Threads :
            (Finishes(t) /\ thr[t].status_code \in PermanentFailures)
                => /\ thr[t].status_code \in DOMAIN categorised_urls'
                   /\ thr[t].url \in categorised_urls'[thr[t].status_code]
                   /\ thr[t].url \in DOMAIN bad_urls_mapping'
                   /\ thr[t].url \in DOMAIN visited_urls']_vars

C5_InvalidSchemaOnFirstAttempt ==
    \E t \in Threads :
        /\ thr[t].pc = "save_check"
        /\ thr[t].status_code = "InvalidSchema"
        /\ thr[t].attempts = 1

C7_EveryDispatchedUrlIsRecorded ==
    /\ \A t \in Threads : thr[t].pc # "raised"
    /\ thr[Main].pc = "done"
          => \A u \in URLS :
                fetch_log[u] # <<>>
                    => /\ u \in DOMAIN visited_urls
                       /\ \E k \in DOMAIN categorised_urls : u \in categorised_urls[k]

\* C8: a worker of depth d fetches only entries that were in the ledger
\* before depth d began, links found during depth d wait in the ledger for
\* the next drain, and the drain starts only when every worker has ended.
C8_DiscoveredLinksWaitForNextDepth ==
    /\ \A w \in Workers : InDispatch(w) => thr[w].due <= current_depth
    /\ \A i \in 1..Len(batch) : batch[i].due <= current_depth
    /\ thr[Main].pc \in {"queue_join", "thread_join"}
          => \A i \in 1..Len(unvisited_urls) : unvisited_urls[i].due = current_depth + 1
    /\ thr[Main].pc \in {"bfs_loop", "done"}
          => \A w \in Workers : thr[w].pc \in {"off", "exited"}

C8_LinkOfDepth0FetchedAtDepth1 ==
    \E w \in Workers : InDispatch(w) /\ thr[w].due = 1 /\ current_depth = 1

\* The dispatches of u in the current breadth-first round.
RoundTaken(u) ==
    Cardinality({i \in 1..Len(fetch_log[u]) : fetch_log[u][i] = current_depth})

\* The URLs drained into the batch of the current round.
RoundBatch == {u \in URLS : RoundTaken(u) > 0} \cup QueuedUrls(batch)

StartedWorkers == {w \in Workers : thr[w].pc # "off"}

\* C9: in a round with N = min(workers, M) worker threads and M drained
\* URLs, no URL is taken twice, no two workers hold the same URL, and when
\* the round ends every URL of the batch has been processed.
C9_BatchUrlsTakenExactlyOnce ==
    /\ \A u \in URLS : RoundTaken(u) <= 1
    /\ \A v, w \in Workers : (v # w /\ InDispatch(v) /\ InDispatch(w)) => thr[v].url # thr[w].url
    /\ thr[Main].pc \in {"queue_join", "thread_join"}
          => Cardinality(StartedWorkers) =
                IF max_concurrent_workers < Cardinality(RoundBatch)
                THEN max_concurrent_workers ELSE Cardinality(RoundBatch)
    /\ thr[Main].pc = "thread_join"
          => /\ batch = <<>>
             /\ \A u \in RoundBatch : RoundTaken(u) = 1 /\ u \in DOMAIN visited_urls
             /\ \A w \in Workers : ~InDispatch(w)

C9_OneWorkerProcessedTwoUrls ==
    /\ thr[Main].pc = "thread_join"
    /\ Cardinality(StartedWorkers) = 1
    /\ Cardinality(RoundBatch) = 2
    /\ \A w \in Workers : thr[w].pc \in {"off", "exited"}

C9_TwoWorkersProcessedTwoUrls ==
    /\ thr[Main].pc = "thread_join"
    /\ Cardinality(StartedWorkers) = 2
    /\ Cardinality(RoundBatch) = 2
    /\ \A w \in Workers : thr[w].pc \in {"off", "exited"}

\* The links a page may hold, in any of its versions; only a page on a
\* seed's host is ever expanded.
PossibleLinks(u) ==
    IF Host(u) \in internal_hosts_list
    THEN UNION {parse_page_links(u, c).links : c \in PageVersions(u)}
    ELSE {}

\* The URLs within d links of the seeds.
RECURSIVE WithinDepth(_)
WithinDepth(d) ==
    IF d = 0 THEN SeqToSet(website_list)
    ELSE WithinDepth(d - 1) \cup UNION {PossibleLinks(u) : u \in WithinDepth(d - 1)}

\* C10: in depth-first mode a URL that is only reachable beyond max_depth
\* is never fetched and stays unvisited.
C10_BeyondMaxDepthNeverFetched ==
    \A u \in URLS :
        u \notin WithinDepth(max_depth) => (fetch_log[u] = <<>> /\ u \notin DOMAIN visited_urls)

\* C11: once the barrier of a breadth-first round is passed, every URL that
\* is marked visited is in a bucket of the categorisation map, however the
\* workers that saved it were interleaved.
C11_NoCategorisationLost ==
    thr[Main].pc \in {"bfs_loop", "done"}
        => \A u \in DOMAIN visited_urls :
              \E k \in DOMAIN categorised_urls : u \in categorised_urls[k]

\* C12: get_url_type answers IGNORE for a response without content-type;
\* else static for a content-type of the static set, whatever the host;
\* else external for a host that is not internal; else recursive.
C12_ClassificationOrder ==
    call.op = "get_url_type"
        => LET absent == call.content_type = "absent"
               static == call.content_type \in StaticContentTypes
               internal == call.req_host \in internal_hosts_list
           IN /\ absent => call.url_type = "IGNORE"
              /\ (~absent /\ static) => call.url_type = "static"
              /\ (~absent /\ ~static /\ ~internal) => call.url_type = "external"
              /\ (~absent /\ ~static /\ internal) => call.url_type = "recursive"

C12_StaticOnExternalHost ==
    /\ call.op = "get_url_type"
    /\ call.content_type = "text/css"
    /\ call.req_host \notin internal_hosts_list
    /\ call.url_type = "static"

\* The step in which thread t makes one attempt.
Attempts(t) == thr[t].pc = "request" /\ thr'[t].pc # "request"

\* C13: only an attempt whose HEAD response was classified recursive issues
\* a GET, queues URLs in the ledger or writes the link graph; an attempt
\* classified static, external or IGNORE issues the HEAD request alone and
\* leaves the ledger and the link graph as they were.
C13_OnlyRecursiveExpands ==
    [][\A t \in Threads :
        Attempts(t)
            => /\ thr'[t].url_type \in {"static", "external", "IGNORE"}
                    => /\ thr'[t].requests = HeadOnly
                       /\ unvisited_urls' = unvisited_urls
                       /\ web_urls_mapping' = web_urls_mapping
               /\ (\/ thr'[t].requests # HeadOnly
                   \/ unvisited_urls' # unvisited_urls
                   \/ web_urls_mapping' # web_urls_mapping)
                    => thr'[t].url_type = "recursive"]_vars

C13_ExternalPageNotExpanded ==
    \E t \in Threads :
        /\ thr[t].pc = "save_check"
        /\ thr[t].url_type = "external"
        /\ thr[t].status_code = "200"
        /\ thr[t].url \notin DOMAIN web_urls_mapping
        /\ \E u \in DOMAIN web_urls_mapping : thr[t].url \in web_urls_mapping[u]

\* A status that looks successful: 2xx or 3xx.
LooksSuccessful(status_code) ==
    IsDigit(status_code) /\ IntOf(status_code) >= 200 /\ IntOf(status_code) < 400

\* C14: the bad-URL detail map has no entry for a URL whose final outcome
\* is a 2xx/3xx status, also when the URL succeeded on its last retry or
\* answered 200 without a content-type.
C14_NoDetailForSuccessfulUrl ==
    /\ \A t \in Threads :
          (PastAttempts(t) /\ LooksSuccessful(thr[t].status_code))
              => thr[t].url \notin DOMAIN bad_urls_mapping
    /\ \A k \in DOMAIN categorised_urls :
          LooksSuccessful(k) => categorised_urls[k] \cap DOMAIN bad_urls_mapping = {}

\* C15: a dispatch that has used up its retries (4 attempts) and whose
\* final outcome is not a 2xx/3xx status has a non-empty detail in the
\* bad-URL map, whatever the URL was classified as, and its outcome is put
\* in the categorisation map before the URL is marked visited.
C15_ExhaustedRetriesLeaveDetail ==
    \A t \in Threads :
        /\ (thr[t].pc = "save_check" /\ thr[t].attempts = DefaultRetryTimes + 1
              /\ thr[t].url_type \in {"static", "external", "recursive"}
              /\ ~LooksSuccessful(thr[t].status_code))
              => /\ thr[t].url \in DOMAIN bad_urls_mapping
                 /\ bad_urls_mapping[thr[t].url] # ""
        /\ thr[t].pc = "visit" => thr[t].url \in Bucket(thr[t].status_code)

\* C16 (as claimed): a dispatch ends with a status of 400 or above only
\* when its retry budget is used up.
C16_StatusFrom400Retried ==
    \A t \in Threads :
        (thr[t].pc = "save_check" /\ IsDigit(thr[t].status_code)
            /\ IntOf(thr[t].status_code) >= 400)
            => thr[t].retry_times = 0

\* C16 (amended): a dispatch ends with a status above 400 only when its
\* retry budget is used up (after 4 attempts, unless the response had no
\* content-type); a status of exactly 400 is never retried.
C16_StatusAbove400Retried ==
    \A t \in Threads :
        /\ (thr[t].pc = "save_check" /\ IsDigit(thr[t].status_code)
              /\ IntOf(thr[t].status_code) > 400)
              => /\ thr[t].retry_times = 0
                 /\ thr[t].url_type # "IGNORE" => thr[t].attempts = DefaultRetryTimes + 1
        /\ (thr[t].pc = "sleep" /\ IsDigit(thr[t].status_code))
              => IntOf(thr[t].status_code) > 400

C16_Status404RetriedToExhaustion ==
    \E t \in Threads :
        /\ thr[t].pc = "save_check"
        /\ thr[t].url_type = "recursive"
        /\ thr[t].status_code = "404"
        /\ thr[t].attempts = DefaultRetryTimes + 1

\* C19: the sleep before the k-th retry of a dispatch lasts
\* (4 - retry_times) * 2 seconds, which is 2, 4 and 6 seconds for k = 1, 2
\* and 3; a dispatch sleeps 12 seconds at most, and the thread that slept
\* goes on with the same URL.
C19_LinearBackoff ==
    /\ [](\A t \in Threads : thr[t].slept <= 12)
    /\ [][\A t \in Threads :
            /\ (thr[t].pc = "request" /\ thr'[t].pc = "sleep")
                  => /\ thr'[t].slept - thr[t].slept = (4 - thr'[t].retry_times) * 2
                     /\ thr'[t].slept - thr[t].slept = 2 * thr'[t].attempts
                     /\ thr'[t].attempts \in 1..3
            /\ (thr[t].pc = "sleep" /\ thr'[t].pc # "sleep")
                  => /\ thr'[t].pc = "request"
                     /\ thr'[t].url = thr[t].url
                     /\ thr'[t].retry_times = thr[t].retry_times - 1]_vars

C19_SleptTwelveSeconds ==
    \E w \in Workers : thr[w].pc = "request" /\ thr[w].slept = 12 /\ thr[w].attempts = 3

\* C20: run_bfs returns in the end.
C20_RunBfsTerminates == <>(thr[Main].pc = "done")

\* The rounds of run_bfs: it returns after the round of depth max_depth, a
\* round that drained nothing starts no worker, and what the last round
\* found is still queued when run_bfs returns.
C20_RoundsOfRunBfs ==
    /\ current_depth <= max_depth + 1
    /\ thr[Main].pc = "done" => current_depth = max_depth + 1
    /\ (thr[Main].pc \in {"queue_join", "thread_join"} /\ RoundBatch = {}) => StartedWorkers = {}
    /\ thr[Main].pc = "done"
          => \A i \in 1..Len(unvisited_urls) : unvisited_urls[i].due = max_depth + 1

\* scheme://authority followed by a path (which begins with a slash)
AbsoluteUrl(scheme, authority, path) ==
    scheme \o <<":", "/", "/">> \o authority
        \o (IF path # <<>> /\ path[1] # "/" THEN <<"/">> ELSE <<>>) \o path

\* The segments of the referer's path with the last one replaced.
WithLastSegment(segments, segment) == join([segments EXCEPT ![Len(segments)] = segment], "/")

\* The URL documented for a link of one of the five reference forms.
DocumentedUrl(link, referer_url) ==
    LET referer == urlparse(referer_url)
        segments == split(referer.path, "/")
        hash == FindAny(link, {"#"})
    IN
    IF link \in AbsoluteLinks THEN (IF hash = 0 THEN link ELSE Take(link, hash - 1))
    ELSE IF link \in SchemeRelativeLinks THEN <<"h", "t", "t", "p", ":">> \o link
    ELSE IF link \in RootRelativeLinks
    THEN AbsoluteUrl(referer.scheme, referer.netloc, link)
    ELSE IF link \in ParentRelativeLinks
    THEN AbsoluteUrl(referer.scheme, referer.netloc,
                     WithLastSegment(Take(segments, Len(segments) - 1), Drop(link, 3)))
    ELSE AbsoluteUrl(referer.scheme, referer.netloc, WithLastSegment(segments, link))

\* C17: for a link of each of the five reference forms and a referer whose
\* path has a segment to pop, parse_url returns the documented URL: the
\* link itself (less its fragment); http: before a scheme-relative link;
\* the referer's scheme and authority before a root-relative link; for
\* ../rest the referer's path less its last segment with rest as the new
\* final segment; for a bare segment the referer's path with that final
\* segment.
C17_FiveFormsResolveAsDocumented ==
    (/\ call.op = "parse_url"
     /\ call.url \in FiveFormLinks
     /\ Len(split(urlparse(call.referer_url).path, "/")) >= 2)
        => call.result = Returned(DocumentedUrl(call.url, call.referer_url))

\* A string with a scheme and an authority.
IsAbsoluteUrl(value) ==
    /\ value # None
    /\ ~urlparse(value).raised
    /\ urlparse(value).scheme # <<>>
    /\ urlparse(value).netloc # <<>>

\* C18: parse_url never raises, and what it returns is nothing or an
\* absolute URL.
C18_ParseUrlTotalAndAbsolute ==
    call.op = "parse_url"
        => /\ call.result.raised = ""
           /\ call.result.value = None \/ IsAbsoluteUrl(call.result.value)

\* C21: every URL in a bucket of the categorisation map whose key is not a
\* number (an exception tag) has an entry in the bad-URL detail map, so
\* the report's self.bad_urls_mapping[url] finds it.
C21_FailureTagHasDetail ==
    \A k \in DOMAIN categorised_urls :
        ~IsDigit(k) => categorised_urls[k] \subseteq DOMAIN bad_urls_mapping

C21_ConnectionErrorUrlReported ==
    /\ thr[Main].pc = "done"
    /\ \E u \in Bucket("ConnectionError") : u \in DOMAIN bad_urls_mapping

\* The URLs a step has put in the ledger's queue.
NewlyQueued == QueuedUrls(unvisited_urls') \ QueuedUrls(unvisited_urls)

\* C22: an entry of the link graph never changes once it is written, by a
\* retry of the same dispatch or by a later fetch of the same URL, while
\* every recursive attempt that got a body still queues the links of that
\* body in the ledger.
C22_LinkGraphEntryWrittenOnce ==
    [][/\ \A u \in DOMAIN web_urls_mapping :
            /\ u \in DOMAIN web_urls_mapping'
            /\ web_urls_mapping'[u] = web_urls_mapping[u]
       /\ \A t \in Threads :
            (/\ Attempts(t)
             /\ thr'[t].pc # "raised"
             /\ thr'[t].url_type = "recursive"
             /\ IsDigit(thr'[t].status_code))
                => \E content \in PageVersions(thr[t].url) :
                      /\ ~parse_page_links(thr[t].url, content).raised
                      /\ NewlyQueued =
                            urls_to_insert(unvisited_urls, DOMAIN visited_urls,
                                           parse_page_links(thr[t].url, content).links)
                      /\ thr[t].url \in DOMAIN web_urls_mapping
                            => web_urls_mapping' = web_urls_mapping]_vars

\* A URL fetched a second time whose page had changed: its new link is
\* queued, its entry in the link graph is the one of the first fetch.
C22_SecondFetchQueuedLinkOutsideEntry ==
    \E u \in URLS :
        /\ Len(fetch_log[u]) = 2
        /\ DOMAIN web_urls_mapping = {u}
        /\ \E i \in 1..Len(unvisited_urls) : unvisited_urls[i].url \notin web_urls_mapping[u]

====
